---- MODULE Spec2Model ----
(***************************************************************************)
(* A model of namegen::generate (include/namegen/namegen.hpp): the pattern *)
(* scanner, its option_t state, the token table and the random draw.       *)
(* A character is a one-character string; a pattern, a token and the       *)
(* output buffer are sequences of characters.                              *)
(***************************************************************************)
EXTENDS Integers, Sequences, FiniteSets, TLC

\* ------------------------------------------------------------------------
\* Bounds of the model
\* ------------------------------------------------------------------------

\* Longest pattern drawn from the whole alphabet.
MaxLen == 3

\* Seeds handed to generate are 0..MaxSeed.
MaxSeed == 6

\* Longest pattern of the repeated-call specification.
MaxCallLen == 1

\* Seeds of the repeated-call specification are 1..MaxCallSeed.
MaxCallSeed == 2

\* Number of calls of generate in the repeated-call specification.
MaxCalls == 3

\* Longest pattern drawn from the whole alphabet in the specification with
\* fairness.
MaxFairLen == 2

\* Most alternatives in a generated '<' group, and the longest of them.
MaxAlts == 3

MaxAltLen == 1

\* ------------------------------------------------------------------------
\* Token table (get_tokens)
\* ------------------------------------------------------------------------

token_map ==
    [
      s |-> <<
        <<"a", "c", "h">>, <<"a", "c", "k">>, <<"a", "d">>, <<"a", "g", "e">>, <<"a", "l", "d">>,
        <<"a", "l", "e">>, <<"a", "n">>, <<"a", "n", "g">>, <<"a", "r">>, <<"a", "r", "d">>, <<"a", "s">>,
        <<"a", "s", "h">>, <<"a", "t">>, <<"a", "t", "h">>, <<"a", "u", "g", "h">>, <<"a", "w">>,
        <<"b", "a", "n">>, <<"b", "e", "l">>, <<"b", "u", "r">>, <<"c", "e", "r">>, <<"c", "h", "a">>,
        <<"c", "h", "e">>, <<"d", "a", "n">>, <<"d", "a", "r">>, <<"d", "e", "l">>, <<"d", "e", "n">>,
        <<"d", "r", "a">>, <<"d", "y", "n">>, <<"e", "c", "h">>, <<"e", "l", "d">>, <<"e", "l", "m">>,
        <<"e", "m">>, <<"e", "n">>, <<"e", "n", "d">>, <<"e", "n", "g">>, <<"e", "n", "t", "h">>,
        <<"e", "r">>, <<"e", "s", "s">>, <<"e", "s", "t">>, <<"e", "t">>, <<"g", "a", "r">>,
        <<"g", "h", "a">>, <<"h", "a", "t">>, <<"h", "i", "n">>, <<"h", "o", "n">>, <<"i", "a">>,
        <<"i", "g", "h", "t">>, <<"i", "l", "d">>, <<"i", "m">>, <<"i", "n", "a">>, <<"i", "n", "e">>,
        <<"i", "n", "g">>, <<"i", "r">>, <<"i", "s">>, <<"i", "s", "s">>, <<"i", "t">>, <<"k", "a", "l">>,
        <<"k", "e", "l">>, <<"k", "i", "m">>, <<"k", "i", "n">>, <<"l", "e", "r">>, <<"l", "o", "r">>,
        <<"l", "y", "e">>, <<"m", "o", "r">>, <<"m", "o", "s">>, <<"n", "a", "l">>, <<"n", "y">>,
        <<"n", "y", "s">>, <<"o", "l", "d">>, <<"o", "m">>, <<"o", "n">>, <<"o", "r">>, <<"o", "r", "m">>,
        <<"o", "s">>, <<"o", "u", "g", "h">>, <<"p", "e", "r">>, <<"p", "o", "l">>, <<"q", "u", "a">>,
        <<"q", "u", "e">>, <<"r", "a", "d">>, <<"r", "a", "k">>, <<"r", "a", "n">>, <<"r", "a", "y">>,
        <<"r", "i", "l">>, <<"r", "i", "s">>, <<"r", "o", "d">>, <<"r", "o", "t", "h">>, <<"r", "y", "n">>,
        <<"s", "a", "m">>, <<"s", "a", "y">>, <<"s", "e", "r">>, <<"s", "h", "y">>, <<"s", "k", "e", "l">>,
        <<"s", "u", "l">>, <<"t", "a", "i">>, <<"t", "a", "n">>, <<"t", "a", "s">>, <<"t", "h", "e", "r">>,
        <<"t", "i", "a">>, <<"t", "i", "n">>, <<"t", "o", "n">>, <<"t", "o", "r">>, <<"t", "u", "r">>,
        <<"u", "m">>, <<"u", "n", "d">>, <<"u", "n", "t">>, <<"u", "r", "n">>, <<"u", "s", "k">>,
        <<"u", "s", "t">>, <<"v", "e", "r">>, <<"v", "e", "s">>, <<"v", "o", "r">>, <<"w", "a", "r">>,
        <<"w", "o", "r">>, <<"y", "e", "r">> >>,
      v |-> <<
        <<"a">>, <<"e">>, <<"i">>, <<"o">>, <<"u">>, <<"y">> >>,
      V |-> <<
        <<"a">>, <<"e">>, <<"i">>, <<"o">>, <<"u">>, <<"y">>, <<"a", "e">>, <<"a", "i">>, <<"a", "u">>,
        <<"a", "y">>, <<"e", "a">>, <<"e", "e">>, <<"e", "i">>, <<"e", "u">>, <<"e", "y">>, <<"i", "a">>,
        <<"i", "e">>, <<"o", "e">>, <<"o", "i">>, <<"o", "o">>, <<"o", "u">>, <<"u", "i">> >>,
      c |-> <<
        <<"b">>, <<"c">>, <<"d">>, <<"f">>, <<"g">>, <<"h">>, <<"j">>, <<"k">>, <<"l">>, <<"m">>, <<"n">>,
        <<"p">>, <<"q">>, <<"r">>, <<"s">>, <<"t">>, <<"v">>, <<"w">>, <<"x">>, <<"y">>, <<"z">> >>,
      B |-> <<
        <<"b">>, <<"b", "l">>, <<"b", "r">>, <<"c">>, <<"c", "h">>, <<"c", "h", "r">>, <<"c", "l">>,
        <<"c", "r">>, <<"d">>, <<"d", "r">>, <<"f">>, <<"g">>, <<"h">>, <<"j">>, <<"k">>, <<"l">>,
        <<"l", "l">>, <<"m">>, <<"n">>, <<"p">>, <<"p", "h">>, <<"q", "u">>, <<"r">>, <<"r", "h">>, <<"s">>,
        <<"s", "c", "h">>, <<"s", "h">>, <<"s", "l">>, <<"s", "m">>, <<"s", "n">>, <<"s", "t">>,
        <<"s", "t", "r">>, <<"s", "w">>, <<"t">>, <<"t", "h">>, <<"t", "h", "r">>, <<"t", "r">>, <<"v">>,
        <<"w">>, <<"w", "h">>, <<"y">>, <<"z">>, <<"z", "h">> >>,
      C |-> <<
        <<"b">>, <<"c">>, <<"c", "h">>, <<"c", "k">>, <<"d">>, <<"f">>, <<"g">>, <<"g", "h">>, <<"h">>,
        <<"k">>, <<"l">>, <<"l", "d">>, <<"l", "l">>, <<"l", "t">>, <<"m">>, <<"n">>, <<"n", "d">>,
        <<"n", "n">>, <<"n", "t">>, <<"p">>, <<"p", "h">>, <<"q">>, <<"r">>, <<"r", "d">>, <<"r", "r">>,
        <<"r", "t">>, <<"s">>, <<"s", "h">>, <<"s", "s">>, <<"s", "t">>, <<"t">>, <<"t", "h">>, <<"v">>,
        <<"w">>, <<"y">>, <<"z">> >>,
      i |-> <<
        <<"a", "i", "r">>, <<"a", "n", "k", "l", "e">>, <<"b", "a", "l", "l">>, <<"b", "e", "e", "f">>,
        <<"b", "o", "n", "e">>, <<"b", "u", "m">>, <<"b", "u", "m", "b", "l", "e">>, <<"b", "u", "m", "p">>,
        <<"c", "h", "e", "e", "s", "e">>, <<"c", "l", "o", "d">>, <<"c", "l", "o", "t">>,
        <<"c", "l", "o", "w", "n">>, <<"c", "o", "r", "n">>, <<"d", "i", "p">>, <<"d", "o", "l", "t">>,
        <<"d", "o", "o", "f">>, <<"d", "o", "r", "k">>, <<"d", "u", "m", "b">>, <<"f", "a", "c", "e">>,
        <<"f", "i", "n", "g", "e", "r">>, <<"f", "o", "o", "t">>, <<"f", "u", "m", "b", "l", "e">>,
        <<"g", "o", "o", "f">>, <<"g", "r", "u", "m", "b", "l", "e">>, <<"h", "e", "a", "d">>,
        <<"k", "n", "o", "c", "k">>, <<"k", "n", "o", "c", "k", "e", "r">>,
        <<"k", "n", "u", "c", "k", "l", "e">>, <<"l", "o", "a", "f">>, <<"l", "u", "m", "p">>,
        <<"l", "u", "n", "k">>, <<"m", "e", "a", "t">>, <<"m", "u", "c", "k">>, <<"m", "u", "n", "c", "h">>,
        <<"n", "i", "t">>, <<"n", "u", "m", "b">>, <<"p", "i", "n">>, <<"p", "u", "f", "f">>,
        <<"s", "k", "u", "l", "l">>, <<"s", "n", "a", "r", "k">>, <<"s", "n", "e", "e", "z", "e">>,
        <<"t", "h", "i", "m", "b", "l", "e">>, <<"t", "w", "e", "r", "p">>, <<"t", "w", "i", "t">>,
        <<"w", "a", "d">>, <<"w", "i", "m", "p">>, <<"w", "i", "p", "e">> >>,
      m |-> <<
        <<"b", "a", "b", "y">>, <<"b", "o", "o", "b", "l", "e">>, <<"b", "u", "n", "k", "e", "r">>,
        <<"c", "u", "d", "d", "l", "e">>, <<"c", "u", "d", "d", "l", "y">>, <<"c", "u", "t", "i", "e">>,
        <<"d", "o", "o", "d", "l", "e">>, <<"f", "o", "o", "f", "i", "e">>, <<"g", "o", "o", "b", "l", "e">>,
        <<"h", "o", "n", "e", "y">>, <<"k", "i", "s", "s", "i", "e">>, <<"l", "o", "v", "e", "r">>,
        <<"l", "o", "v", "e", "y">>, <<"m", "o", "o", "f", "i", "e">>, <<"m", "o", "o", "g", "l", "i", "e">>,
        <<"m", "o", "o", "p", "i", "e">>, <<"m", "o", "o", "p", "s", "i", "e">>,
        <<"n", "o", "o", "k", "u", "m">>, <<"p", "o", "o", "c", "h", "i", "e">>, <<"p", "o", "o", "f">>,
        <<"p", "o", "o", "f", "i", "e">>, <<"p", "o", "o", "k", "i", "e">>,
        <<"s", "c", "h", "m", "o", "o", "p", "i", "e">>, <<"s", "c", "h", "n", "o", "o", "g", "l", "e">>,
        <<"s", "c", "h", "n", "o", "o", "k", "i", "e">>, <<"s", "c", "h", "n", "o", "o", "k", "u", "m">>,
        <<"s", "m", "o", "o", "c", "h">>, <<"s", "m", "o", "o", "c", "h", "i", "e">>,
        <<"s", "m", "o", "o", "s", "h">>, <<"s", "n", "o", "o", "g", "l", "e">>,
        <<"s", "n", "o", "o", "g", "y">>, <<"s", "n", "o", "o", "k", "i", "e">>,
        <<"s", "n", "o", "o", "k", "u", "m">>, <<"s", "n", "u", "g", "g", "y">>,
        <<"s", "w", "e", "e", "t", "i", "e">>, <<"w", "o", "o", "g", "l", "e">>, <<"w", "o", "o", "g", "y">>,
        <<"w", "o", "o", "k", "i", "e">>, <<"w", "o", "o", "k", "u", "m">>, <<"w", "u", "d", "d", "l", "e">>,
        <<"w", "u", "d", "d", "l", "y">>, <<"w", "u", "g", "g", "y">>, <<"w", "u", "n", "n", "y">> >>,
      M |-> <<
        <<"b", "o", "o">>, <<"b", "u", "n", "c", "h">>, <<"b", "u", "n", "n", "y">>, <<"c", "a", "k", "e">>,
        <<"c", "a", "k", "e", "s">>, <<"c", "u", "t", "e">>, <<"d", "a", "r", "l", "i", "n", "g">>,
        <<"d", "u", "m", "p", "l", "i", "n", "g">>, <<"d", "u", "m", "p", "l", "i", "n", "g", "s">>,
        <<"f", "a", "c", "e">>, <<"f", "o", "o", "f">>, <<"g", "o", "o">>, <<"h", "e", "a", "d">>,
        <<"k", "i", "n">>, <<"k", "i", "n", "s">>, <<"l", "i", "p", "s">>, <<"l", "o", "v", "e">>,
        <<"m", "u", "s", "h">>, <<"p", "i", "e">>, <<"p", "o", "o">>, <<"p", "o", "o", "h">>,
        <<"p", "o", "o", "k">>, <<"p", "u", "m", "s">> >>,
      D |-> <<
        <<"b">>, <<"b", "l">>, <<"b", "r">>, <<"c", "l">>, <<"d">>, <<"f">>, <<"f", "l">>, <<"f", "r">>,
        <<"g">>, <<"g", "h">>, <<"g", "l">>, <<"g", "r">>, <<"h">>, <<"j">>, <<"k">>, <<"k", "l">>, <<"m">>,
        <<"n">>, <<"p">>, <<"t", "h">>, <<"w">> >>,
      d |-> <<
        <<"e", "l", "c", "h">>, <<"i", "d", "i", "o", "t">>, <<"o", "b">>, <<"o", "g">>, <<"o", "k">>,
        <<"o", "l", "p", "h">>, <<"o", "l", "t">>, <<"o", "m", "p", "h">>, <<"o", "n", "g">>,
        <<"o", "n", "k">>, <<"o", "o">>, <<"o", "o", "b">>, <<"o", "o", "f">>, <<"o", "o", "g">>,
        <<"o", "o", "k">>, <<"o", "o", "z">>, <<"o", "r", "g">>, <<"o", "r", "k">>, <<"o", "r", "m">>,
        <<"o", "r", "o", "n">>, <<"u", "b">>, <<"u", "c", "k">>, <<"u", "g">>, <<"u", "l", "f">>,
        <<"u", "l", "t">>, <<"u", "m">>, <<"u", "m", "b">>, <<"u", "m", "p">>, <<"u", "m", "p", "h">>,
        <<"u", "n">>, <<"u", "n", "b">>, <<"u", "n", "g">>, <<"u", "n", "k">>, <<"u", "n", "p", "h">>,
        <<"u", "n", "t">>, <<"u", "z", "z">> >>,
      t |-> <<
        <<"M", "a", "s", "t", "e", "r", " ", "o", "f">>, <<"R", "u", "l", "e", "r", " ", "o", "f">>,
        <<"T", "e", "a", "c", "h", "e", "r", " ", "o", "f">>,
        <<"B", "e", "t", "r", "a", "y", "e", "r", " ", "o", "f">>,
        <<"W", "a", "r", "d", "e", "n", " ", "o", "f">>,
        <<"P", "r", "o", "t", "e", "c", "t", "o", "r", " ", "o", "f">>,
        <<"C", "o", "n", "q", "u", "e", "r", "o", "r", " ", "o", "f">>,
        <<"K", "i", "n", "g", " ", "o", "f">>, <<"Q", "u", "e", "e", "n", " ", "o", "f">>,
        <<"C", "h", "a", "m", "p", "i", "o", "n", " ", "o", "f">>,
        <<"O", "v", "e", "r", "l", "o", "r", "d", " ", "o", "f">>,
        <<"D", "e", "f", "e", "n", "d", "e", "r", " ", "o", "f">>,
        <<"S", "e", "e", "k", "e", "r", " ", "o", "f">>,
        <<"H", "a", "r", "b", "i", "n", "g", "e", "r", " ", "o", "f">>,
        <<"I", "n", "v", "o", "k", "e", "r", " ", "o", "f">>,
        <<"S", "h", "a", "p", "e", "r", " ", "o", "f">>, <<"B", "e", "a", "r", "e", "r", " ", "o", "f">>,
        <<"S", "a", "v", "i", "o", "r", " ", "o", "f">>, <<"K", "e", "e", "p", "e", "r", " ", "o", "f">>,
        <<"L", "o", "r", "d", " ", "o", "f">>, <<"L", "a", "d", "y", " ", "o", "f">>,
        <<"S", "c", "h", "o", "l", "a", "r", " ", "o", "f">>,
        <<"L", "o", "r", "d", " ", "P", "r", "o", "t", "e", "c", "t", "o", "r", " ", "o", "f">>,
        <<"B", "r", "i", "n", "g", "e", "r", " ", "o", "f">>,
        <<"E", "m", "i", "s", "s", "a", "r", "y", " ", "o", "f">>,
        <<"V", "o", "i", "c", "e", " ", "o", "f">>,
        <<"C", "o", "m", "m", "a", "n", "d", "e", "r", " ", "o", "f">>,
        <<"H", "e", "r", "a", "l", "d", " ", "o", "f">>, <<"F", "o", "e", " ", "o", "f">>,
        <<"E", "n", "l", "i", "g", "h", "t", "e", "n", "e", "r", " ", "o", "f">>,
        <<"G", "u", "a", "r", "d", "i", "a", "n", " ", "o", "f">>,
        <<"S", "c", "r", "i", "b", "e", " ", "o", "f">>,
        <<"D", "i", "s", "r", "u", "p", "t", "o", "r", " ", "o", "f">>,
        <<"A", "r", "c", "h", "i", "t", "e", "c", "t", " ", "o", "f">>,
        <<"W", "a", "n", "d", "e", "r", "e", "r", " ", "o", "f">>,
        <<"K", "n", "i", "g", "h", "t", " ", "o", "f">>,
        <<"V", "a", "n", "g", "u", "a", "r", "d", " ", "o", "f">>,
        <<"R", "e", "a", "p", "e", "r", " ", "o", "f">>,
        <<"A", "d", "v", "i", "s", "e", "r", " ", "o", "f">>,
        <<"S", "l", "a", "y", "e", "r", " ", "o", "f">>, <<"H", "u", "n", "t", "e", "r", " ", "o", "f">>,
        <<"S", "c", "r", "i", "b", "e", " ", "o", "f">>, <<"G", "u", "i", "d", "e", " ", "o", "f">>,
        <<"T", "h", "r", "o", "n", "e", " ", "o", "f">>,
        <<"A", "r", "c", "h", "m", "a", "g", "e", " ", "o", "f">>,
        <<"M", "y", "s", "t", "i", "c", " ", "o", "f">>, <<"S", "c", "r", "i", "b", "e", " ", "o", "f">>,
        <<"W", "a", "t", "c", "h", "e", "r", " ", "o", "f">>, <<"C", "u", "r", "s", "e", " ", "o", "f">>,
        <<"R", "e", "v", "e", "n", "g", "e", " ", "o", "f">>, <<"C", "r", "o", "w", "n", " ", "o", "f">>,
        <<"B", "r", "e", "a", "k", "e", "r", " ", "o", "f">>,
        <<"L", "o", "r", "d", " ", "o", "f", " ", "t", "h", "e", " ", "S", "h", "a", "d", "o", "w", "s">>,
        <<"M", "a", "e", "s", "t", "r", "o", " ", "o", "f">>,
        <<"I", "l", "l", "u", "m", "i", "n", "a", "t", "o", "r", " ", "o", "f">>,
        <<"T", "a", "m", "e", "r", " ", "o", "f">>,
        <<"H", "a", "r", "v", "e", "s", "t", "e", "r", " ", "o", "f">>,
        <<"B", "r", "i", "n", "g", "e", "r", " ", "o", "f", " ", "t", "h", "e", " ", "D", "a", "w", "n">>,
        <<"W", "i", "e", "l", "d", "e", "r", " ", "o", "f">>,
        <<"M", "a", "s", "t", "e", "r", "m", "i", "n", "d", " ", "o", "f">>,
        <<"C", "h", "r", "o", "n", "i", "c", "l", "e", "r", " ", "o", "f">>,
        <<"M", "e", "n", "t", "o", "r", " ", "o", "f">> >>,
      T |-> <<
        <<"t", "h", "e", " ", "E", "n", "d", "l", "e", "s", "s">>, <<"t", "h", "e", " ", "S", "e", "a">>,
        <<"t", "h", "e", " ", "F", "i", "e", "r", "y", " ", "P", "i", "t">>,
        <<"t", "h", "e", " ", "D", "e", "e", "p">>,
        <<"t", "h", "e", " ", "F", "o", "r", "s", "a", "k", "e", "n">>,
        <<"t", "h", "e", " ", "F", "a", "l", "l", "e", "n">>,
        <<"t", "h", "e", " ", "I", "m", "m", "o", "r", "t", "a", "l">>,
        <<"t", "h", "e", " ", "F", "o", "r", "g", "o", "t", "t", "e", "n">>,
        <<"t", "h", "e", " ", "A", "b", "y", "s", "s">>,
        <<"t", "h", "e", " ", "E", "t", "e", "r", "n", "a", "l", " ", "F", "l", "a", "m", "e">>,
        <<"t", "h", "e", " ", "S", "t", "o", "r", "m">>,
        <<"t", "h", "e", " ", "U", "n", "s", "e", "e", "n">>,
        <<"t", "h", "e", " ", "B", "o", "u", "n", "d", "l", "e", "s", "s">>,
        <<"t", "h", "e", " ", "S", "a", "v", "a", "g", "e">>,
        <<"t", "h", "e", " ", "U", "n", "y", "i", "e", "l", "d", "i", "n", "g">>,
        <<"t", "h", "e", " ", "W", "i", "l", "d", "s">>, <<"t", "h", "e", " ", "F", "i", "r", "s", "t">>,
        <<"t", "h", "e", " ", "C", "u", "r", "s", "e", "d">>,
        <<"t", "h", "e", " ", "H", "e", "a", "v", "e", "n", "s">>,
        <<"t", "h", "e", " ", "S", "h", "a", "d", "o", "w", "s">>,
        <<"t", "h", "e", " ", "E", "t", "e", "r", "n", "a", "l", " ", "N", "i", "g", "h", "t">>,
        <<"t", "h", "e", " ", "D", "a", "r", "k", "e", "n", "e", "d">>,
        <<"t", "h", "e", " ", "W", "a", "n", "d", "e", "r", "e", "r">>,
        <<"t", "h", "e", " ", "U", "n", "k", "n", "o", "w", "n">>,
        <<"t", "h", "e", " ", "C", "r", "o", "w", "n", "e", "d">>,
        <<"t", "h", "e", " ", "I", "r", "o", "n", " ", "F", "i", "s", "t">>,
        <<"t", "h", "e", " ", "M", "o", "o", "n">>, <<"t", "h", "e", " ", "A", "s", "h", "e", "n">>,
        <<"t", "h", "e", " ", "S", "i", "l", "e", "n", "t">>,
        <<"t", "h", "e", " ", "W", "a", "n", "d", "e", "r", "e", "r">>,
        <<"t", "h", "e", " ", "U", "n", "f", "o", "r", "g", "i", "v", "e", "n">>,
        <<"t", "h", "e", " ", "A", "l", "c", "h", "e", "m", "i", "s", "t">>,
        <<"t", "h", "e", " ", "L", "o", "s", "t">>,
        <<"t", "h", "e", " ", "E", "t", "e", "r", "n", "a", "l", " ", "W", "a", "t", "c", "h">>,
        <<"t", "h", "e", " ", "G", "l", "o", "r", "i", "o", "u", "s">>,
        <<"t", "h", "e", " ", "R", "e", "d", " ", "H", "a", "n", "d">>,
        <<"t", "h", "e", " ", "S", "k", "y">>,
        <<"t", "h", "e", " ", "C", "r", "u", "c", "i", "b", "l", "e">>,
        <<"t", "h", "e", " ", "F", "l", "a", "m", "e">>,
        <<"t", "h", "e", " ", "A", "n", "c", "i", "e", "n", "t">>,
        <<"t", "h", "e", " ", "H", "e", "r", "a", "l", "d", "e", "d">>,
        <<"t", "h", "e", " ", "S", "t", "o", "r", "m", "b", "r", "i", "n", "g", "e", "r">>,
        <<"t", "h", "e", " ", "D", "r", "e", "a", "d">>,
        <<"t", "h", "e", " ", "S", "h", "a", "t", "t", "e", "r", "e", "d">>,
        <<"t", "h", "e", " ", "M", "e", "r", "c", "i", "l", "e", "s", "s">>,
        <<"t", "h", "e", " ", "V", "o", "i", "d">>,
        <<"t", "h", "e", " ", "C", "o", "n", "q", "u", "e", "r", "e", "d">>,
        <<"t", "h", "e", " ", "B", "r", "o", "k", "e", "n">>,
        <<"t", "h", "e", " ", "C", "h", "o", "s", "e", "n">>,
        <<"t", "h", "e", " ", "U", "n", "c", "h", "a", "i", "n", "e", "d">>,
        <<"t", "h", "e", " ", "H", "u", "n", "t", "e", "r">>,
        <<"t", "h", "e", " ", "D", "y", "i", "n", "g">>,
        <<"t", "h", "e", " ", "R", "a", "d", "i", "a", "n", "t">>,
        <<"t", "h", "e", " ", "L", "a", "s", "t">>, <<"t", "h", "e", " ", "H", "i", "d", "d", "e", "n">>,
        <<"t", "h", "e", " ", "S", "e", "e", "k", "e", "r">>,
        <<"t", "h", "e", " ", "V", "a", "n", "q", "u", "i", "s", "h", "e", "d">>,
        <<"t", "h", "e", " ", "B", "l", "i", "g", "h", "t", "e", "d">>,
        <<"t", "h", "e", " ", "O", "u", "t", "c", "a", "s", "t">>,
        <<"t", "h", "e", " ", "S", "a", "c", "r", "e", "d">>,
        <<"t", "h", "e", " ", "V", "o", "i", "d", "b", "r", "i", "n", "g", "e", "r">>,
        <<"t", "h", "e", " ", "V", "e", "n", "g", "e", "f", "u", "l">>,
        <<"t", "h", "e", " ", "U", "n", "s", "h", "a", "k", "a", "b", "l", "e">>,
        <<"t", "h", "e", " ", "P", "h", "o", "e", "n", "i", "x">>,
        <<"t", "h", "e", " ", "B", "l", "e", "s", "s", "e", "d">>,
        <<"t", "h", "e", " ", "V", "a", "l", "i", "a", "n", "t">>,
        <<"t", "h", "e", " ", "R", "e", "b", "o", "r", "n">>,
        <<"t", "h", "e", " ", "R", "e", "c", "k", "o", "n", "i", "n", "g">> >> ]

\* get_tokens that falls back to the syllables for a key without category.
get_tokens_default(key) ==
    IF key \in DOMAIN token_map THEN token_map[key] ELSE token_map["s"]

\* get_tokens: the list of the key's category, the empty list for any
\* other key.
get_tokens(key) ==
    IF key \in DOMAIN token_map THEN token_map[key] ELSE << >>

\* ------------------------------------------------------------------------
\* Random source (get_rand): std::default_random_engine is minstd_rand0,
\* x' = 16807 * x mod (2^31 - 1), computed with Schrage's decomposition so
\* that no intermediate value needs more than 31 bits.
\* ------------------------------------------------------------------------

EngineModulus == 2147483647

EngineMultiplier == 16807

\* EngineModulus \div EngineMultiplier and EngineModulus % EngineMultiplier
SchrageQ == 127773

SchrageR == 2836

\* The engine's constructor: the seed reduced mod m, 0 replaced by 1.
EngineSeed(s) ==
    LET r == s % EngineModulus IN IF r = 0 THEN 1 ELSE r

\* One call of generator(): the next state, which is also the value returned.
EngineNext(x) ==
    LET t == EngineMultiplier * (x % SchrageQ) - SchrageR * (x \div SchrageQ)
    IN  IF t > 0 THEN t ELSE t + EngineModulus

\* generator.max() - generator.min() = (m - 1) - 1
EngineRange == EngineModulus - 2

\* std::uniform_int_distribution<T>(0, n - 1) applied to an engine in state
\* x: draws are rejected until one falls below n * scaling, then scaled down.
RECURSIVE Distribution(_, _)
Distribution(x, n) ==
    LET scaling == EngineRange \div n
        past    == n * scaling
        y       == EngineNext(x)
        ret     == y - 1
    IN  IF ret >= past THEN Distribution(y, n) ELSE ret \div scaling

\* get_rand(seed, 0, n - 1): the seed becomes the engine's first output, the
\* index is drawn from the engine after that output.
get_rand(seed, n) ==
    LET x == EngineNext(EngineSeed(seed))
    IN  [seed |-> x, value |-> Distribution(x, n)]

\* pick_random_element: tokens[random_index], 1-based here.
pick_random_element(seed, tokens) ==
    LET r == get_rand(seed, Len(tokens))
    IN  [seed |-> r.seed, token |-> tokens[r.value + 1]]

\* ------------------------------------------------------------------------
\* Capitalization
\* ------------------------------------------------------------------------

\* std::toupper in the "C" locale.
UpperOf ==
    [a |-> "A", b |-> "B", c |-> "C", d |-> "D", e |-> "E", f |-> "F",
     g |-> "G", h |-> "H", i |-> "I", j |-> "J", k |-> "K", l |-> "L",
     m |-> "M", n |-> "N", o |-> "O", p |-> "P", q |-> "Q", r |-> "R",
     s |-> "S", t |-> "T", u |-> "U", v |-> "V", w |-> "W", x |-> "X",
     y |-> "Y", z |-> "Z"]

toupper(character) ==
    IF character \in DOMAIN UpperOf THEN UpperOf[character] ELSE character

\* capitalize_and_clear that leaves the flag set.
capitalize_no_clear(character, capitalize) ==
    IF capitalize
    THEN [character |-> toupper(character), capitalize |-> capitalize]
    ELSE [character |-> character, capitalize |-> capitalize]

\* capitalize_and_clear: the character to emit and the flag afterwards.
capitalize_and_clear(character, capitalize) ==
    IF capitalize
    THEN [character |-> toupper(character), capitalize |-> FALSE]
    ELSE [character |-> character, capitalize |-> capitalize]

\* ------------------------------------------------------------------------
\* option_t and the scanner
\* ------------------------------------------------------------------------

\* A default-constructed option_t whose seed is then set (generate).
option_t(s) ==
    [capitalize     |-> FALSE,
     emit_literal   |-> FALSE,
     inside_group   |-> FALSE,
     seed           |-> s,
     current_option |-> << >>,
     options        |-> << >>]

\* process_token that calls pick_random_element without looking at
\* tokens.empty(): for a key without category the index is drawn over an
\* empty list.
process_token_unguarded(options, buffer, key) ==
    LET tokens == get_tokens(key) IN
    IF tokens = << >>
    THEN [options |-> options, buffer |-> buffer, ret |-> 0, draws |-> {0}]
    ELSE LET p == pick_random_element(options.seed, tokens)
             drawn == [options EXCEPT !.seed = p.seed]
             c == capitalize_and_clear(Head(p.token), options.capitalize)
         IN  [options |-> [drawn EXCEPT !.capitalize = c.capitalize],
              buffer  |-> Append(buffer, c.character) \o Tail(p.token),
              ret     |-> 1,
              draws   |-> {Len(tokens)}]

\* process_token that assigns the token to the buffer instead of appending
\* it.
process_token_assign(options, buffer, key) ==
    LET tokens == get_tokens(key) IN
    IF tokens = << >>
    THEN LET c == capitalize_and_clear(key, options.capitalize)
         IN  [options |-> [options EXCEPT !.capitalize = c.capitalize],
              buffer  |-> <<c.character>>,
              ret     |-> 1,
              draws   |-> {}]
    ELSE LET p == pick_random_element(options.seed, tokens)
             drawn == [options EXCEPT !.seed = p.seed]
         IN  IF p.token = << >>
             THEN [options |-> drawn, buffer |-> buffer, ret |-> 0,
                   draws |-> {Len(tokens)}]
             ELSE LET c == capitalize_and_clear(Head(p.token), options.capitalize)
                  IN  [options |-> [drawn EXCEPT !.capitalize = c.capitalize],
                       buffer  |-> <<c.character>> \o Tail(p.token),
                       ret     |-> 1,
                       draws   |-> {Len(tokens)}]

\* process_token: ret is the function's result, 1 or 0; draws holds the
\* sizes of the lists an index was drawn over (get_rand(seed, 0, size - 1)).
process_token(options, buffer, key) ==
    LET tokens == get_tokens(key) IN
    IF tokens = << >>
    THEN LET c == capitalize_and_clear(key, options.capitalize)
         IN  [options |-> [options EXCEPT !.capitalize = c.capitalize],
              buffer  |-> Append(buffer, c.character),
              ret     |-> 1,
              draws   |-> {}]
    ELSE LET p == pick_random_element(options.seed, tokens)
             drawn == [options EXCEPT !.seed = p.seed]
         IN  IF p.token = << >>
             THEN [options |-> drawn, buffer |-> buffer, ret |-> 0,
                   draws |-> {Len(tokens)}]
             ELSE LET c == capitalize_and_clear(Head(p.token), options.capitalize)
                  IN  [options |-> [drawn EXCEPT !.capitalize = c.capitalize],
                       buffer  |-> Append(buffer, c.character) \o Tail(p.token),
                       ret     |-> 1,
                       draws   |-> {Len(tokens)}]

\* What process_character hands back: the option state and the buffer after
\* the character, the function's result (1 or 0), and the sizes of the lists
\* an index was drawn over on the way (none for a case that makes no draw).
Outcome(options, buffer, ret) ==
    [options |-> options, buffer |-> buffer, ret |-> ret, draws |-> {}]

\* An outcome reached after draws over lists of the given sizes.
Drew(sizes, outcome) ==
    [outcome EXCEPT !.draws = sizes \cup @]

\* case '(' that keeps the parenthesis of a group being collected.
CaseOpenParenCollect(options, buffer) ==
    IF ~options.inside_group
    THEN Outcome([options EXCEPT !.emit_literal = TRUE], buffer, 1)
    ELSE Outcome([options EXCEPT !.current_option = Append(@, "(")], buffer, 1)

\* case '(' without the test of inside_group.
CaseOpenParenAlways(options, buffer) ==
    Outcome([options EXCEPT !.emit_literal = TRUE], buffer, 1)

\* case '(' of process_character.
CaseOpenParen(options, buffer) ==
    Outcome(IF ~options.inside_group
            THEN [options EXCEPT !.emit_literal = TRUE]
            ELSE options,
            buffer, 1)

\* case ')' of process_character.
CaseCloseParen(options, buffer) ==
    Outcome(IF ~options.inside_group
            THEN [options EXCEPT !.emit_literal = FALSE]
            ELSE options,
            buffer, 1)

\* case '<' that also resets the capitalize flag.
CaseOpenAngleResetFlag(options, buffer) ==
    Outcome([options EXCEPT !.inside_group = TRUE,
                            !.capitalize = FALSE,
                            !.options = << >>,
                            !.current_option = << >>],
            buffer, 1)

\* case '<' of process_character.
CaseOpenAngle(options, buffer) ==
    Outcome([options EXCEPT !.inside_group = TRUE,
                            !.options = << >>,
                            !.current_option = << >>],
            buffer, 1)

\* case '|' that skips an empty option.
CaseBarSkipEmpty(options, buffer) ==
    IF options.current_option = << >>
    THEN Outcome(options, buffer, 1)
    ELSE Outcome([options EXCEPT
                     !.options = Append(@, options.current_option),
                     !.current_option = << >>],
                 buffer, 1)

\* case '|' that a literal group takes as text.
CaseBarLiteral(options, buffer) ==
    IF options.emit_literal /\ ~options.inside_group
    THEN Outcome(options, Append(buffer, "|"), 1)
    ELSE Outcome([options EXCEPT
                     !.options = Append(@, options.current_option),
                     !.current_option = << >>],
                 buffer, 1)

\* case '|' of process_character.
CaseBar(options, buffer) ==
    Outcome([options EXCEPT !.options = Append(@, options.current_option),
                            !.current_option = << >>],
            buffer, 1)

\* A switch without case '!': the character falls through to the default
\* case.
CaseBangDefault(options, buffer) ==
    IF options.inside_group
    THEN Outcome([options EXCEPT !.current_option = Append(@, "!")], buffer, 1)
    ELSE Outcome(options, Append(buffer, "!"), 1)

\* case '!' of process_character.
CaseBang(options, buffer) ==
    Outcome([options EXCEPT !.capitalize = TRUE], buffer, 1)

\* The default case without its emit_literal branch: a character inside a
\* literal group is looked up in the token table.
CaseDefaultNoLiteral(options, buffer, character) ==
    IF options.inside_group
    THEN Outcome([options EXCEPT !.current_option = Append(@, character)],
                 buffer, 1)
    ELSE LET t == process_token(options, buffer, character)
         IN  Drew(t.draws, Outcome(t.options, t.buffer, 1))

\* The default case of process_character; the result of process_token is
\* dropped.
CaseDefault(options, buffer, character) ==
    IF options.inside_group
    THEN Outcome([options EXCEPT !.current_option = Append(@, character)],
                 buffer, 1)
    ELSE IF options.emit_literal
    THEN LET c == capitalize_and_clear(character, options.capitalize)
         IN  Outcome([options EXCEPT !.capitalize = c.capitalize],
                     Append(buffer, c.character), 1)
    ELSE LET t == process_token(options, buffer, character)
         IN  Drew(t.draws, Outcome(t.options, t.buffer, 1))

\* case '>' that forgets the option being collected.
CloseGroupDropLast(options) ==
    [options EXCEPT !.inside_group = FALSE,
                    !.options = IF @ = << >>
                                THEN <<options.current_option>>
                                ELSE @,
                    !.current_option = << >>]

\* case '>' without the push_back: the option being collected is dropped.
CloseGroupNoPush(options) ==
    [options EXCEPT !.inside_group = FALSE,
                    !.current_option = << >>]

\* case '>' of process_character up to the draw: the group is closed, the
\* current option is stored.
CloseGroup(options) ==
    [options EXCEPT !.inside_group = FALSE,
                    !.options = Append(@, options.current_option),
                    !.current_option = << >>]

RECURSIVE process_character(_, _, _)
RECURSIVE process_selected(_, _, _, _)

\* The loop of case '>': the characters of selected_option from index i on,
\* each through process_character; it stops at the first result of 0.
process_selected(options, buffer, selected_option, i) ==
    IF i > Len(selected_option)
    THEN Outcome(options, buffer, 1)
    ELSE LET r == process_character(options, buffer, selected_option[i])
         IN  IF r.ret = 0
             THEN r
             ELSE Drew(r.draws,
                       process_selected(r.options, r.buffer,
                                        selected_option, i + 1))

\* case '>' of process_character.
CaseCloseAngle(options, buffer) ==
    LET closed == CloseGroup(options) IN
    IF closed.options = << >>
    THEN Outcome(closed, buffer, 0)
    ELSE LET r == get_rand(closed.seed, Len(closed.options))
             selected_option == closed.options[r.value + 1]
             p == process_selected([closed EXCEPT !.seed = r.seed],
                                   buffer, selected_option, 1)
         IN  Drew({Len(closed.options)} \cup p.draws,
                  IF p.ret = 0
                  THEN p
                  ELSE Outcome([p.options EXCEPT !.options = << >>],
                               p.buffer, 1))

process_character(options, buffer, character) ==
    CASE character = "(" -> CaseOpenParen(options, buffer)
      [] character = ")" -> CaseCloseParen(options, buffer)
      [] character = "<" -> CaseOpenAngle(options, buffer)
      [] character = "|" -> CaseBar(options, buffer)
      [] character = ">" -> CaseCloseAngle(options, buffer)
      [] character = "!" -> CaseBang(options, buffer)
      [] OTHER           -> CaseDefault(options, buffer, character)

\* The loop of generate from the i-th character of pattern on: the option
\* state and the buffer when the loop is left, and ret = 0 when it was left
\* through buffer.clear(); break.
RECURSIVE generate_loop(_, _, _, _)
generate_loop(options, buffer, pattern, i) ==
    IF i > Len(pattern)
    THEN Outcome(options, buffer, 1)
    ELSE LET r == process_character(options, buffer, pattern[i])
         IN  IF r.ret = 0
             THEN Drew(r.draws, Outcome(r.options, << >>, 0))
             ELSE Drew(r.draws,
                       generate_loop(r.options, r.buffer, pattern, i + 1))

\* generate as a function: the string returned for a pattern and a seed.
generate(pattern, seed) ==
    generate_loop(option_t(seed), << >>, pattern, 1).buffer

\* ------------------------------------------------------------------------
\* Patterns and seeds given to generate
\* ------------------------------------------------------------------------

StructuralChars == {"<", ">", "(", ")", "|", "!"}

\* Two category keys and one character that is the key of no category.
PlainChars == {"s", "v", "x"}

Alphabet == StructuralChars \cup PlainChars

SeqsUpTo(S, n) == UNION {[1..k -> S] : k \in 0..n}

\* Patterns of the documentation, of the example program and of the
\* specification's testable properties.
ExamplePatterns ==
    { <<"s", "(", "d", "i", "m", ")">>,
      <<"c", "(", "d", "i", "m", ")">>,
      <<"(", "h", "e", "l", "l", "o", ")">>,
      <<"<", "s", ">">>,
      <<"<", "s", "|", "v", ">">>,
      <<"<", "c", "|", "v", "|", ">">>,
      <<"!", "(", "f", "o", "o", ")">>,
      <<"v", "!", "s">>,
      <<"!", "s", "s", "V", "'", "!", "i">>,
      <<"v", "!", "M">>,
      <<"C", "!", "i">>,
      <<"<", "(", "C", "!", "i", ")", "|", "(", "v", "!", "M", ")", ">">>,
      <<"<", "C", "!", "i", "|", "v", "!", "M", "|", ">">>,
      <<"<", "C", "!", "i", ">">>,
      <<"<", "(", "d", "i", "m", ")", ">">>,
      <<"<", "a", ")">>,
      <<"(", "a", ">">>,
      <<"<", "a">>,
      <<"x">>,
      <<"(", "a", "|", "b", ")">>,
      <<"!", "<", "|", ">", "s">>,
      <<"!", "(", ")", "s">> }

\* The nesting depth the specification allows ("hard cap, e.g. 32"); the
\* source has no such number.
DepthCap == 32

\* One group more than DepthCap, opened and never closed, around a vowel.
DeepPatterns ==
    { [i \in 1..(DepthCap + 1) |-> open] \o <<"v">> : open \in {"<", "("} }

\* A literal group between two runs of plain characters.
LiteralPatterns ==
    { pre \o <<"(">> \o x \o <<")">> \o post :
        pre \in SeqsUpTo(PlainChars, MaxLen - 2),
        x \in SeqsUpTo(PlainChars, MaxLen - 1),
        post \in SeqsUpTo(PlainChars, MaxLen - 2) }

\* The characters of generated alternatives: a category key and a
\* character without category.
AltChars == {"s", "x"}

RECURSIVE JoinAlternatives(_)
JoinAlternatives(alts) ==
    IF Len(alts) = 1
    THEN alts[1]
    ELSE alts[1] \o <<"|">> \o JoinAlternatives(Tail(alts))

\* One '<' group of 1..MaxAlts alternatives, each possibly empty.
AltPatterns ==
    { <<"<">> \o JoinAlternatives(alts) \o <<">">> :
        alts \in UNION { [1..n -> SeqsUpTo(AltChars, MaxAltLen)] : n \in 1..MaxAlts } }

\* One '(' group of two alternatives.
LiteralAltPatterns ==
    { <<"(">> \o a \o <<"|">> \o b \o <<")">> :
        a \in SeqsUpTo(PlainChars, MaxAltLen),
        b \in SeqsUpTo(PlainChars, MaxAltLen) }

\* A '<' group inside the first alternative of a '<' group: <x<y>|z>.
NestedPatterns ==
    { <<"<", x, "<", y, ">", "|", z, ">">> : x, y, z \in PlainChars }

\* A '!' directly before one '<' group.
BangAltPatterns == { <<"!">> \o p : p \in AltPatterns }

\* A '<' group of two alternatives, the second one any single character
\* that does not end the group or the alternative.
SecondAltPatterns ==
    { <<"<", a, "|", b, ">">> :
        a \in PlainChars, b \in Alphabet \ {"<", ">", "|"} }

Patterns ==
    SeqsUpTo(Alphabet, MaxLen) \cup ExamplePatterns \cup LiteralPatterns
        \cup DeepPatterns \cup AltPatterns \cup LiteralAltPatterns
        \cup NestedPatterns \cup BangAltPatterns \cup SecondAltPatterns

Seeds == 0..MaxSeed

\* ------------------------------------------------------------------------
\* generate as a state machine
\* ------------------------------------------------------------------------

VARIABLES
    pattern,   \* generate's argument pattern
    seed,      \* generate's argument seed
    pos,       \* position of the range-for loop in pattern, 1-based
    options,   \* the local option_t
    buffer,    \* the local buffer; the value returned once pc = "done"
    pc,        \* "scan" inside the loop, "done" after return
    failed,    \* the loop was left through buffer.clear(); break
    drawn,     \* sizes of the lists get_rand drew an index over in this call
    first,     \* arguments and result of the first finished call
    calls      \* number of calls of generate so far

vars ==
    <<pattern, seed, pos, options, buffer, pc, failed, drawn, first, calls>>

NoCall == [called |-> FALSE]

\* The state in which generate enters its loop.
Enter(p, s) ==
    /\ pattern = p
    /\ seed = s
    /\ pos = 1
    /\ options = option_t(s)
    /\ buffer = << >>
    /\ pc = "scan"
    /\ failed = FALSE
    /\ drawn = {}

Init ==
    /\ \E p \in Patterns, s \in Seeds : Enter(p, s)
    /\ first = NoCall
    /\ calls = 1

Remember(result) ==
    first' = IF first.called
             THEN first
             ELSE [called |-> TRUE, pattern |-> pattern, seed |-> seed,
                   result |-> result]

\* One iteration of the loop of generate: process_character on the next
\* character; a result of 0 clears the buffer and leaves the loop.
GenerateStep ==
    /\ pc = "scan"
    /\ pos <= Len(pattern)
    /\ LET r == process_character(options, buffer, pattern[pos]) IN
         /\ options' = r.options
         /\ drawn' = drawn \cup r.draws
         /\ IF r.ret = 0
            THEN /\ buffer' = << >>
                 /\ failed' = TRUE
                 /\ pc' = "done"
                 /\ pos' = pos
                 /\ Remember(<< >>)
            ELSE /\ buffer' = r.buffer
                 /\ failed' = FALSE
                 /\ pc' = "scan"
                 /\ pos' = pos + 1
                 /\ UNCHANGED first
    /\ UNCHANGED <<pattern, seed, calls>>

\* The loop ends with the pattern and generate returns buffer.
GenerateReturn ==
    /\ pc = "scan"
    /\ pos > Len(pattern)
    /\ pc' = "done"
    /\ Remember(buffer)
    /\ UNCHANGED <<pattern, seed, pos, options, buffer, failed, drawn, calls>>

Next == GenerateStep \/ GenerateReturn

Spec == Init /\ [][Next]_vars

\* generate is straight-line sequential code: once called, its loop keeps
\* taking steps until it returns.
FairPatterns ==
    SeqsUpTo(Alphabet, MaxFairLen) \cup ExamplePatterns \cup DeepPatterns

FairSeeds == 1..MaxCallSeed

InitFair ==
    /\ \E p \in FairPatterns, s \in FairSeeds : Enter(p, s)
    /\ first = NoCall
    /\ calls = 1

\* What every iteration of the loop and the return do to the control state:
\* the scan moves to the next character or generate is left. It is enabled
\* exactly while generate is scanning, as Next is.
Advance ==
    /\ pc = "scan"
    /\ \E q \in {"scan", "done"}, n \in {pos, pos + 1} : pc' = q /\ pos' = n

SpecFair == InitFair /\ [][Next]_vars /\ WF_<<pc, pos>>(Advance)

\* ------------------------------------------------------------------------
\* Repeated calls of generate
\* ------------------------------------------------------------------------

CallAlphabet == (StructuralChars \ {")"}) \cup {"v"}

CallPatterns == SeqsUpTo(CallAlphabet, MaxCallLen)

CallSeeds == 1..MaxCallSeed

InitCalls ==
    /\ \E p \in CallPatterns, s \in CallSeeds : Enter(p, s)
    /\ first = NoCall
    /\ calls = 1

\* A static option_t that outlives the call: only its seed is set again.
StartStale(p, s) ==
    /\ pattern' = p
    /\ seed' = s
    /\ pos' = 1
    /\ options' = [options EXCEPT !.seed = s]
    /\ buffer' = << >>
    /\ pc' = "scan"
    /\ failed' = FALSE
    /\ drawn' = {}

\* generate is entered again: options and buffer are locals, constructed
\* anew in every call.
Start(p, s) ==
    /\ pattern' = p
    /\ seed' = s
    /\ pos' = 1
    /\ options' = option_t(s)
    /\ buffer' = << >>
    /\ pc' = "scan"
    /\ failed' = FALSE
    /\ drawn' = {}

\* The caller calls generate with any pattern and seed, after the previous
\* call has returned.
Call ==
    /\ pc = "done"
    /\ calls < MaxCalls - 1
    /\ \E p \in CallPatterns, s \in CallSeeds : Start(p, s)
    /\ calls' = calls + 1
    /\ UNCHANGED first

\* The caller repeats its first call.
CallAgain ==
    /\ pc = "done"
    /\ calls < MaxCalls
    /\ first.called
    /\ Start(first.pattern, first.seed)
    /\ calls' = calls + 1
    /\ UNCHANGED first

NextCalls == GenerateStep \/ GenerateReturn \/ Call \/ CallAgain

SpecCalls == InitCalls /\ [][NextCalls]_vars

\* ------------------------------------------------------------------------
\* Properties
\* ------------------------------------------------------------------------

\* What a pattern says, read off its text alone.

Range(f) == {f[i] : i \in DOMAIN f}

IsPlain(p, a, b) == \A m \in a..b : p[m] \notin StructuralChars

\* Number of '<' groups open after the first n characters of p.
RECURSIVE AngleDepth(_, _)
AngleDepth(p, n) ==
    IF n = 0
    THEN 0
    ELSE LET d == AngleDepth(p, n - 1)
         IN  IF p[n] = "<" THEN d + 1
             ELSE IF p[n] = ">" /\ d > 0 THEN d - 1
             ELSE d

\* Number of '(' groups open after the first n characters of p.
RECURSIVE ParenDepth(_, _)
ParenDepth(p, n) ==
    IF n = 0
    THEN 0
    ELSE LET d == ParenDepth(p, n - 1)
         IN  IF p[n] = "(" THEN d + 1
             ELSE IF p[n] = ")" /\ d > 0 THEN d - 1
             ELSE d

\* The literal groups ( X ) of p that are outside any '<' group and whose X
\* has no structural character: the positions of '(' and ')'.
TopLiteralGroups(p) ==
    { g \in (1..Len(p)) \X (1..Len(p)) :
        /\ g[1] < g[2]
        /\ p[g[1]] = "("
        /\ p[g[2]] = ")"
        /\ IsPlain(p, g[1] + 1, g[2] - 1)
        /\ AngleDepth(p, g[1] - 1) = 0 }

\* The strings one category key can expand to: a token of its category, or
\* the key itself when it has no category.
Expansions(key) ==
    IF get_tokens(key) = << >> THEN {<<key>>} ELSE Range(get_tokens(key))

\* t with its first character upper-cased when flag is set.
Capitalized(t, flag) ==
    IF flag /\ t # << >> THEN <<toupper(Head(t))>> \o Tail(t) ELSE t

\* buf is one expansion per character of keys, in order.
RECURSIVE IsExpansionOf(_, _)
IsExpansionOf(buf, keys) ==
    IF keys = << >>
    THEN buf = << >>
    ELSE \E t \in Expansions(Head(keys)) :
            /\ Len(t) <= Len(buf)
            /\ SubSeq(buf, 1, Len(t)) = t
            /\ IsExpansionOf(SubSeq(buf, Len(t) + 1, Len(buf)), Tail(keys))

\* p is one group < A1 | ... | An > and nothing else, the Ai without
\* structural character.
IsAlternation(p) ==
    /\ Len(p) >= 2
    /\ p[1] = "<"
    /\ p[Len(p)] = ">"
    /\ \A m \in 2..(Len(p) - 1) : p[m] = "|" \/ p[m] \notin StructuralChars

\* The texts between the '|' of body, in order.
RECURSIVE SplitAtBars(_, _)
SplitAtBars(body, current) ==
    IF body = << >>
    THEN <<current>>
    ELSE IF Head(body) = "|"
    THEN <<current>> \o SplitAtBars(Tail(body), << >>)
    ELSE SplitAtBars(Tail(body), Append(current, Head(body)))

AlternativesOf(p) == SplitAtBars(SubSeq(p, 2, Len(p) - 1), << >>)

IsUpper(c) == c \in Range(UpperOf)

IsLower(c) == c \in DOMAIN UpperOf

EndsWith(b, suffix) ==
    /\ Len(b) >= Len(suffix)
    /\ SubSeq(b, Len(b) - Len(suffix) + 1, Len(b)) = suffix

\* C1: determinism. A call of generate that returns after an earlier call
\* with the same pattern and the same seed returns the string the earlier
\* call returned, whatever was called in between.
C1_Deterministic ==
    (pc = "done" /\ first.called /\ first.pattern = pattern /\ first.seed = seed)
        => buffer = first.result

\* The last call repeats the first one, with a call of another pattern in
\* between, and returns a name that was drawn from the vowels.
C1_Witness ==
    /\ pc = "done"
    /\ calls = MaxCalls
    /\ first.called /\ first.pattern = pattern /\ first.seed = seed
    /\ pattern = <<"v">>
    /\ buffer = first.result
    /\ buffer # << >>

\* C2: a literal group ( X ) outside any '<' group, X without structural
\* character. Each character of X is appended as it is written (upper-cased
\* when a capitalize is pending) and the seed cursor does not move; a plain
\* character after ')' or at the start of the pattern is expanded as a
\* category key. "(hello)" returns "hello" and "s(dim)" returns a token of
\* 's' followed by "dim", for every seed.
C2_Step ==
    (pc = "scan" /\ pos <= Len(pattern) /\ pattern[pos] \notin StructuralChars)
    => LET ch == pattern[pos]
           inside == \E g \in TopLiteralGroups(pattern) : g[1] < pos /\ pos < g[2]
           after  == \E g \in TopLiteralGroups(pattern) :
                        g[2] < pos /\ IsPlain(pattern, g[2] + 1, pos)
           before == \E g \in TopLiteralGroups(pattern) :
                        pos < g[1] /\ IsPlain(pattern, 1, g[1] - 1)
       IN  /\ inside =>
                 /\ buffer' = buffer \o Capitalized(<<ch>>, options.capitalize)
                 /\ options'.seed = options.seed
                 /\ pc' = "scan"
           /\ (after \/ before) =>
                 /\ \E t \in Expansions(ch) :
                       buffer' = buffer \o Capitalized(t, options.capitalize)
                 /\ (options'.seed # options.seed) <=> (get_tokens(ch) # << >>)
                 /\ pc' = "scan"

C2_Examples ==
    pc = "done" =>
       /\ pattern = <<"(", "h", "e", "l", "l", "o", ")">>
             => buffer = <<"h", "e", "l", "l", "o">>
       /\ pattern = <<"s", "(", "d", "i", "m", ")">>
             => \E t \in Range(get_tokens("s")) :
                   t # << >> /\ buffer = t \o <<"d", "i", "m">>

\* C2: the two examples at every return, and the step property at every step.
C2_TopLevelLiteral == [](C2_Examples) /\ [][C2_Step]_vars

\* "s(dim)" has returned a syllable followed by "dim".
C2_Witness ==
    /\ pc = "done"
    /\ pattern = <<"s", "(", "d", "i", "m", ")">>
    /\ EndsWith(buffer, <<"d", "i", "m">>)
    /\ Len(buffer) > 3

\* C3: a '!' outside any group upper-cases exactly the first character of the
\* next emitted unit (a token or a literal character); the rest of the unit
\* and the output before it are unchanged, and the unit after it is emitted
\* as drawn. "!(foo)" returns "Foo", "!s" starts with an upper-case letter
\* and "v!s" is a lower-case vowel followed by a syllable with an upper-case
\* first letter, for every seed.
C3_Units(ch) == Expansions(ch) \cup {<<ch>>}

\* pos is the first plain character after a '!' that is outside any group,
\* with nothing but parentheses and further '!' in between.
C3_Pending(p, i) ==
    \E j \in 1..(i - 1) :
        /\ p[j] = "!"
        /\ AngleDepth(p, j - 1) = 0
        /\ ParenDepth(p, j - 1) = 0
        /\ \A m \in (j + 1)..(i - 1) : p[m] \in {"(", ")", "!"}

\* pos directly follows a plain character that was emitted at the top level.
C3_Consumed(p, i) ==
    /\ i > 1
    /\ p[i - 1] \notin StructuralChars
    /\ AngleDepth(p, i - 1) = 0

C3_Step ==
    (/\ pc = "scan" /\ pos <= Len(pattern)
     /\ pattern[pos] \notin StructuralChars
     /\ AngleDepth(pattern, pos - 1) = 0)
    => /\ C3_Pending(pattern, pos) =>
            \E t \in C3_Units(pattern[pos]) :
                buffer' = buffer \o <<toupper(Head(t))>> \o Tail(t)
       /\ C3_Consumed(pattern, pos) =>
            \E t \in C3_Units(pattern[pos]) : buffer' = buffer \o t

C3_Examples ==
    pc = "done" =>
       /\ pattern = <<"!", "(", "f", "o", "o", ")">> => buffer = <<"F", "o", "o">>
       /\ pattern = <<"!", "s">> =>
             /\ buffer # << >> /\ IsUpper(buffer[1])
             /\ \E t \in Range(get_tokens("s")) : buffer = Capitalized(t, TRUE)
       /\ pattern = <<"v", "!", "s">> =>
             \E a \in Range(get_tokens("v")), t \in Range(get_tokens("s")) :
                /\ buffer = a \o Capitalized(t, TRUE)
                /\ IsLower(buffer[1]) /\ IsUpper(buffer[Len(a) + 1])

\* C3: the three examples at every return, and the step property at every
\* step.
C3_TopLevelCapitalize == [](C3_Examples) /\ [][C3_Step]_vars

\* "v!s" has returned a lower-case vowel and a syllable of more than one
\* letter, of which only the first is upper-case.
C3_Witness ==
    /\ pc = "done"
    /\ pattern = <<"v", "!", "s">>
    /\ Len(buffer) >= 3
    /\ IsLower(buffer[1]) /\ IsUpper(buffer[2]) /\ IsLower(buffer[3])

\* C4: a '!' written inside a '<' alternative capitalizes the unit directly
\* after it: "<C!i>" returns a token of 'C' as drawn followed by a token of
\* 'i' with its first letter upper-cased, and "<C!i|v!M|>" returns that, or
\* a vowel followed by a capitalized token of 'M', or nothing.
C4_AfterBang(a, b) ==
    { ta \o Capitalized(tb, TRUE) :
        ta \in Range(get_tokens(a)), tb \in Range(get_tokens(b)) }

C4_BangInsideAlternative ==
    pc = "done" =>
       /\ pattern = <<"<", "C", "!", "i", ">">>
             => buffer \in C4_AfterBang("C", "i")
       /\ pattern = <<"<", "C", "!", "i", "|", "v", "!", "M", "|", ">">>
             => buffer \in C4_AfterBang("C", "i") \cup C4_AfterBang("v", "M")
                              \cup {<< >>}

\* C5: a closing bracket of the wrong kind, a closing bracket with nothing
\* open and a group still open at the end of the pattern make generate take
\* its error outcome, with the output cleared.
C5_OpenAtEnd(p) ==
    AngleDepth(p, Len(p)) > 0 \/ ParenDepth(p, Len(p)) > 0

C5_Mismatched ==
    { <<"<", "a", ")">>, <<"(", "a", ">">>, <<")">>, <<">">>, <<"<", "a">> }

C5_BracketMatching ==
    (pc = "done" /\ (pattern \in C5_Mismatched \/ C5_OpenAtEnd(pattern)))
        => (failed /\ buffer = << >>)

\* C6: a pattern that opens more than DepthCap nested groups without closing
\* them makes generate take its error outcome instead of going on.
C6_DepthLimit ==
    (/\ pc = "done"
     /\ \E n \in 1..Len(pattern) :
           AngleDepth(pattern, n) + ParenDepth(pattern, n) > DepthCap)
        => (failed /\ buffer = << >>)

\* C7: for a pattern that is one group < A1 | ... | An >, the Ai without
\* structural character, generate returns the token expansion of one Ai:
\* the one whose index is the draw over 0..n-1 made from the seed. Every
\* index is drawn for some seed, and a group without '|' returns the
\* expansion of its single alternative.
C7_Alternation ==
    (pc = "done" /\ IsAlternation(pattern))
    => LET alts == AlternativesOf(pattern)
           n    == Len(alts)
           idx  == get_rand(seed, n).value
       IN  /\ ~failed
           /\ idx \in 0..(n - 1)
           /\ IsExpansionOf(buffer, alts[idx + 1])
           /\ n = 1 => IsExpansionOf(buffer, alts[1])
           /\ \A k \in 0..(n - 1) : \E s \in Seeds : get_rand(s, n).value = k

\* "<s|x|>" has returned "x", its second alternative.
C7_Witness ==
    /\ pc = "done"
    /\ pattern = <<"<", "s", "|", "x", "|", ">">>
    /\ buffer = <<"x">>

\* C8: an empty alternative, leading, in the middle or trailing, is a valid
\* choice: when it is the one drawn generate returns the empty string and
\* does not fail. "<c|v|>" returns one consonant, one vowel or nothing, and
\* never more than one character.
C8_EmptyAlternative ==
    (pc = "done" /\ IsAlternation(pattern))
    => LET alts == AlternativesOf(pattern)
           idx  == get_rand(seed, Len(alts)).value
       IN  /\ (\E k \in 1..Len(alts) : alts[k] = << >>) => ~failed
           /\ alts[idx + 1] = << >> => buffer = << >>
           /\ alts[idx + 1] # << >> => buffer # << >>
           /\ pattern = <<"<", "c", "|", "v", "|", ">">> =>
                 /\ Len(buffer) <= 1
                 /\ \/ buffer = << >>
                    \/ buffer \in Range(get_tokens("c"))
                    \/ buffer \in Range(get_tokens("v"))

\* "<c|v|>" has returned nothing: the trailing empty alternative was drawn.
C8_Witness ==
    /\ pc = "done"
    /\ pattern = <<"<", "c", "|", "v", "|", ">">>
    /\ get_rand(seed, 3).value = 2
    /\ buffer = << >>
    /\ ~failed

\* C9: a plain character without category, met outside any '<' group, is
\* emitted as itself (upper-cased only when a capitalize is pending); the
\* seed cursor does not move and the scan goes on. "x" returns "x" for every
\* seed.
C9_Step ==
    (/\ pc = "scan" /\ pos <= Len(pattern)
     /\ pattern[pos] \notin StructuralChars
     /\ pattern[pos] \notin DOMAIN token_map
     /\ AngleDepth(pattern, pos - 1) = 0)
    => /\ buffer' = buffer \o Capitalized(<<pattern[pos]>>, options.capitalize)
       /\ options'.seed = options.seed
       /\ pc' = "scan"
       /\ ~failed'

C9_Examples ==
    (pc = "done" /\ pattern = <<"x">>) => (buffer = <<"x">> /\ ~failed)

\* C9: the example at every return, and the step property at every step.
C9_UnknownKey == [](C9_Examples) /\ [][C9_Step]_vars

\* "sx" has returned a syllable followed by "x", after exactly one draw.
C9_Witness ==
    /\ pc = "done"
    /\ pattern = <<"s", "x">>
    /\ Len(buffer) >= 3
    /\ buffer[Len(buffer)] = "x"
    /\ options.seed = get_rand(seed, 1).seed
    /\ ~failed

\* C10: a literal group keeps its meaning inside a '<' group: "<(dim)>"
\* returns "dim", and "<(C!i)|(v!M)>" returns the characters of the chosen
\* alternative as they are written, the one after '!' upper-cased.
C10_LiteralInsideGroup ==
    pc = "done" =>
       /\ pattern = <<"<", "(", "d", "i", "m", ")", ">">>
             => buffer = <<"d", "i", "m">>
       /\ pattern = <<"<", "(", "C", "!", "i", ")", "|", "(", "v", "!", "M", ")", ">">>
             => buffer \in { <<"C", "I">>, <<"v", "M">> }

\* C11: '|' separates alternatives inside a '(' group too: a pattern ( A | B )
\* with plain texts A and B returns exactly A or exactly B, never both.
C11_IsLiteralAlternation(p) ==
    /\ Len(p) >= 3
    /\ p[1] = "("
    /\ p[Len(p)] = ")"
    /\ \E m \in 2..(Len(p) - 1) :
          /\ p[m] = "|"
          /\ IsPlain(p, 2, m - 1)
          /\ IsPlain(p, m + 1, Len(p) - 1)

C11_LiteralAlternation ==
    (pc = "done" /\ C11_IsLiteralAlternation(pattern))
        => LET body == SubSeq(pattern, 2, Len(pattern) - 1)
               alts == SplitAtBars(body, << >>)
           IN  buffer = alts[1] \/ buffer = alts[2]

\* C12: a '<' group opened while an outer '<' group is collecting is resolved
\* as part of the outer alternative it is written in: <x<y>|z> returns the
\* expansion of x followed by the expansion of y, or the expansion of z.
C12_NestedGroups ==
    (pc = "done" /\ pattern \in NestedPatterns)
        => \/ IsExpansionOf(buffer, <<pattern[2], pattern[4]>>)
           \/ IsExpansionOf(buffer, <<pattern[7]>>)

\* The strings that b is the capitalized form of.
C13_Raw(b) ==
    IF b = << >>
    THEN {b}
    ELSE {b} \cup { <<c>> \o Tail(b) :
                       c \in {d \in DOMAIN UpperOf : UpperOf[d] = b[1]} }

\* C13: a '!' directly before a group < A1 | ... | An > whose alternatives
\* are all non-empty: whichever alternative is drawn, generate returns its
\* expansion with the first character upper-cased and no other character
\* changed.
C13_BangBeforeGroup ==
    (/\ pc = "done"
     /\ Len(pattern) >= 3
     /\ pattern[1] = "!"
     /\ IsAlternation(Tail(pattern))
     /\ \A k \in DOMAIN AlternativesOf(Tail(pattern)) :
           AlternativesOf(Tail(pattern))[k] # << >>)
    => LET alts == AlternativesOf(Tail(pattern))
           idx  == get_rand(seed, Len(alts)).value
       IN  /\ buffer # << >>
           /\ \E raw \in C13_Raw(buffer) :
                 /\ IsExpansionOf(raw, alts[idx + 1])
                 /\ buffer = Capitalized(raw, TRUE)

\* "!<s|x>" has returned a syllable with only its first letter upper-case.
C13_Witness ==
    /\ pc = "done"
    /\ pattern = <<"!", "<", "s", "|", "x", ">">>
    /\ Len(buffer) >= 2
    /\ IsUpper(buffer[1]) /\ IsLower(buffer[2])

\* C14: the capitalize flag is consumed by the group that directly follows
\* the '!': once the closing bracket of that group has been processed the
\* flag is clear, also when the group emitted nothing, so "!<|>s" and "!()s"
\* return a token of 's' as drawn.
C14_GroupAfterBang(p, i) ==
    /\ p[i] \in {")", ">"}
    /\ \E j \in 1..(i - 2) :
          /\ p[j] = "!"
          /\ p[j + 1] = (IF p[i] = ")" THEN "(" ELSE "<")
          /\ AngleDepth(p, j - 1) = 0
          /\ ParenDepth(p, j - 1) = 0
          /\ \A m \in (j + 2)..(i - 1) : p[m] = "|" \/ p[m] \notin StructuralChars

C14_FlagConsumedByGroup ==
    /\ (pos > 1 /\ pos <= Len(pattern) + 1 /\ C14_GroupAfterBang(pattern, pos - 1))
          => ~options.capitalize
    /\ (pc = "done" /\ pattern \in { <<"!", "<", "|", ">", "s">>,
                                     <<"!", "(", ")", "s">> })
          => buffer \in Range(get_tokens("s"))

\* C15: the text of an alternative that is not chosen is not interpreted:
\* when the first alternative of <a|b> is the one drawn, the string returned,
\* the capitalize flag and the seed cursor are those of <a|>, whatever b is.
C15_SkippedNotInterpreted ==
    (/\ pc = "done"
     /\ pattern \in SecondAltPatterns
     /\ get_rand(seed, 2).value = 0)
    => LET ref == generate_loop(option_t(seed), << >>,
                                <<"<", pattern[2], "|", ">">>, 1)
       IN  /\ buffer = ref.buffer
           /\ options.capitalize = ref.options.capitalize
           /\ options.seed = ref.options.seed

\* C16: a '!' at the end of the pattern has no visible effect and is no
\* error: generate(P + "!", s) returns what generate(P, s) returns.
C16_TrailingBang ==
    (pc = "done" /\ pattern # << >> /\ pattern[Len(pattern)] = "!")
        => /\ ~failed
           /\ buffer = generate(SubSeq(pattern, 1, Len(pattern) - 1), seed)

\* "s!" has returned a syllable, all in lower case.
C16_Witness ==
    /\ pc = "done"
    /\ pattern = <<"s", "!">>
    /\ buffer \in Range(get_tokens("s"))
    /\ options.capitalize

\* C17: generate terminates for every pattern. The scan never goes past the
\* end of the pattern, and no text collected in current_option or options
\* holds a structural character, so the loop of case '>' never meets a
\* bracket and process_character recurses one level at most.
C17_Bounded ==
    /\ pos \in 1..(Len(pattern) + 1)
    /\ Range(options.current_option) \cap StructuralChars = {}
    /\ \A k \in DOMAIN options.options :
          Range(options.options[k]) \cap StructuralChars = {}

C17_Termination == [](C17_Bounded) /\ <>(pc = "done")

\* generate has returned for a pattern in which a group was collected and
\* resolved, with parentheses and a '!' written inside the group.
C17_Witness ==
    /\ pc = "done"
    /\ pattern = <<"<", "(", "C", "!", "i", ")", "|", "(", "v", "!", "M", ")", ">">>
    /\ pos = Len(pattern) + 1
    /\ buffer # << >>

\* C18: the random source is never asked for an index over an empty list,
\* neither for a token list (pick_random_element) nor for the alternatives
\* collected at '>', a '>' without '<' included: every list size recorded at
\* a call of get_rand is at least one.
C18_NoEmptyDraw == 0 \notin drawn

\* A '>' without '<' has drawn over its one empty alternative, the key after
\* it over the token list of its category.
C18_Witness ==
    /\ pc = "done"
    /\ pattern = <<">", "s">>
    /\ drawn = {1, Len(get_tokens("s"))}
    /\ Len(get_tokens("s")) > 1

IsPrefixOf(a, b) ==
    /\ Len(a) <= Len(b)
    /\ \A i \in 1..Len(a) : b[i] = a[i]

\* C19: the buffer is append-only during a scan. Over every step of generate
\* the buffer before the step is a prefix of the buffer after it, except for
\* the step that leaves the loop through buffer.clear(), which sets failed
\* and leaves the buffer empty.
C19_AppendOnly ==
    [][IF failed' THEN buffer' = << >> ELSE IsPrefixOf(buffer, buffer')]_vars

\* The key without category was emitted first and the token of the second
\* key was appended behind it.
C19_Witness ==
    /\ pattern = <<"x", "s">>
    /\ pos = 3
    /\ ~failed
    /\ Len(buffer) > 1
    /\ buffer[1] = "x"

\* No token of the table contains a structural character.
C20_TokensClean ==
    \A key \in DOMAIN token_map :
        \A t \in DOMAIN token_map[key] :
            \A i \in DOMAIN token_map[key][t] :
                token_map[key][t][i] \notin StructuralChars

\* C20: structural characters are never data. None of '<', '>', '(', ')',
\* '|', '!' written in a pattern reaches the buffer at any point of the
\* scan, and no token of the table holds one, so the returned string has
\* none.
C20_StructuralNeverData ==
    /\ C20_TokensClean
    /\ \A i \in DOMAIN buffer : buffer[i] \notin StructuralChars

\* A literal group written with a '|' has returned its two texts and nothing
\* else.
C20_Witness ==
    /\ pc = "done"
    /\ pattern = <<"(", "s", "|", "x", ")">>
    /\ buffer = <<"s", "x">>

\* C21: the failure path of generate is unreachable. In every state of the
\* scan process_character returns 1 for the next character, so generate
\* never leaves the loop through buffer.clear() and returns only after the
\* last character of the pattern.
C21_NoFailure ==
    /\ ~failed
    /\ (pc = "scan" /\ pos <= Len(pattern))
         => process_character(options, buffer, pattern[pos]).ret = 1
    /\ pc = "done" => pos = Len(pattern) + 1

\* A '>' without '<' after a category key: the check of options.empty() ran
\* on the one empty option just pushed, and generate returned the token.
C21_Witness ==
    /\ pc = "done"
    /\ pattern = <<"s", ">">>
    /\ ~failed
    /\ pos = 3
    /\ buffer # << >>

\* C22: collecting is silent. While inside_group is set, processing a
\* character other than '>' leaves the buffer, the seed cursor and
\* emit_literal as they were and makes no draw; only current_option, options
\* and capitalize may change.
C22_CollectingSilent ==
    [][(/\ pc = "scan"
        /\ pos <= Len(pattern)
        /\ options.inside_group
        /\ pattern[pos] # ">")
       => /\ buffer' = buffer
          /\ options'.seed = options.seed
          /\ options'.emit_literal = options.emit_literal
          /\ drawn' = drawn]_vars

\* A token was emitted, a group was opened, and a '(' met while collecting
\* has been processed: the buffer still holds the token only.
C22_Witness ==
    /\ pc = "scan"
    /\ pattern = <<"s", "<", "(">>
    /\ pos = 4
    /\ options.inside_group
    /\ ~options.emit_literal
    /\ buffer # << >>

====
